---- MODULE Spec2Model ----
(***************************************************************************)
(* NAT instance recovery Lambda (terraform/nat-recovery-lambda.py).        *)
(*                                                                         *)
(* Every invocation of handler(event, context) is a process that walks     *)
(* through the code; the steps are cut at the external calls               *)
(* (ec2.describe_instances, ec2.start_instances,                           *)
(* ec2.describe_instance_status, ec2.reboot_instances, sns.publish), the   *)
(* only points where an invocation meets the outside world.  What lies     *)
(* between two external calls is local computation and belongs to the step *)
(* of the call before it.                                                  *)
(***************************************************************************)
EXTENDS Integers, Sequences, FiniteSets, TLC

\* Invocations of the handler the model follows.
NumInv == 2

Inv == 1..NumInv

(***************************************************************************)
(* Values                                                                  *)
(***************************************************************************)

\* Python's None: os.environ.get / dict.get of an absent key.
None == "None"

\* The INSTANCE_ID of a complete environment, and another instance's id.
TargetId == "i-nat"
OtherId == "i-other"

\* Lifecycle states the EC2 API reports for an instance.
LifecycleStates ==
    {"pending", "running", "stopping", "stopped", "shutting-down", "terminated"}

\* Values of detail.state the events carry ("terminating" is handled by the
\* code although EC2 reports "shutting-down"); None when the key is absent.
EventStates ==
    {"pending", "running", "shutting-down", "stopped", "stopping",
     "terminated", "terminating", None}

\* Instance/system status values of describe_instance_status.
HealthValues == {"ok", "impaired", "initializing"}

(***************************************************************************)
(* Alarm names: Python strings as sequences of characters.                 *)
(***************************************************************************)

Uppers ==
    <<"A", "B", "C", "D", "E", "F", "G", "H", "I", "J", "K", "L", "M",
      "N", "O", "P", "Q", "R", "S", "T", "U", "V", "W", "X", "Y", "Z">>

Lowers ==
    <<"a", "b", "c", "d", "e", "f", "g", "h", "i", "j", "k", "l", "m",
      "n", "o", "p", "q", "r", "s", "t", "u", "v", "w", "x", "y", "z">>

\* str.lower() on one character.
LowerChar(c) ==
    IF \E k \in 1..Len(Uppers) : Uppers[k] = c
    THEN Lowers[CHOOSE k \in 1..Len(Uppers) : Uppers[k] = c]
    ELSE c

\* str.lower()
Lower(s) == [k \in 1..Len(s) |-> LowerChar(s[k])]

\* sub in s, for Python strings
Contains(sub, s) ==
    \E k \in 0..(Len(s) - Len(sub)) : SubSeq(s, k + 1, k + Len(sub)) = sub

health == <<"h", "e", "a", "l", "t", "h">>
status == <<"s", "t", "a", "t", "u", "s">>

\* detail.get('alarmName', 'Unknown'): the default of an absent key.
Unknown == <<"U", "n", "k", "n", "o", "w", "n">>

\* An absent alarmName key.
NoName == <<None>>

\* Alarm names the events carry.
AlarmNames ==
    { <<"n", "a", "t", "-", "h", "e", "a", "l", "t", "h">>,
      <<"N", "A", "T", "-", "S", "t", "a", "t", "u", "s", "C", "h", "k">>,
      <<"H", "E", "A", "L", "T", "H">>,
      <<"c", "p", "u", "-", "h", "i", "g", "h">>,
      <<"h", "e", "a", "l", "t", "-", "s", "t", "a", "t", "u">>,
      NoName }

\* Values of detail.newState.value; None when the key is absent.
AlarmStateValues == {"ALARM", "OK", "INSUFFICIENT_DATA", None}

(***************************************************************************)
(* Inputs: the event and the execution environment of one invocation.      *)
(***************************************************************************)

StateChangeType == "EC2 Instance State-change Notification"

\* What each component of the event is: shape "ok" is a mapping whose detail is
\* a mapping, "baddetail" a mapping whose detail is not one (detail: null),
\* "nomap" a JSON value that is no mapping at all, "nolog" an object that
\* json.dumps cannot serialise (a direct caller's, never the Lambda
\* runtime's).  The keys the code reads are the fields; None (NoName for the
\* alarm name) is an absent key.
Ev(shape, source, detailType, instanceId, state, alarmName, stateValue) ==
    [shape |-> shape, source |-> source, detailType |-> detailType,
     instanceId |-> instanceId, state |-> state,
     alarmName |-> alarmName, stateValue |-> stateValue]

NoMapEvent == Ev("nomap", None, None, None, None, NoName, None)

StateChangeEvents ==
    { Ev("ok", "aws.ec2", StateChangeType, id, st, NoName, None) :
        id \in {TargetId, OtherId, None}, st \in EventStates }
    \cup { Ev("baddetail", "aws.ec2", StateChangeType, None, None, NoName, None) }

AlarmEvents ==
    { Ev("ok", "aws.cloudwatch", "CloudWatch Alarm State Change", id, None, n, v) :
        id \in {OtherId, None}, n \in AlarmNames, v \in AlarmStateValues }
    \cup { Ev("baddetail", "aws.cloudwatch", "CloudWatch Alarm State Change",
              None, None, NoName, None) }

OtherEvents ==
    { Ev("ok", src[1], src[2], id, "stopped", NoName, None) :
        src \in { <<"aws.ec2", "AWS API Call via CloudTrail">>,
                  <<"aws.autoscaling", StateChangeType>>,
                  <<None, None>> },
        id \in {TargetId, OtherId} }

Events == {NoMapEvent} \cup StateChangeEvents \cup AlarmEvents \cup OtherEvents

\* An event that line 37 cannot log.
NoLogEvent == Ev("nolog", None, None, None, None, NoName, None)

\* The events of a caller that hands handler any Python object.
RawEvents == Events \cup {NoLogEvent}

\* os.environ of the invocation: a value, the empty string, or no variable.
Configs ==
    [INSTANCE_ID : {TargetId, "", None},
     ROUTE_TABLE_ID : {"rtb-1", None},
     SNS_TOPIC_ARN : {"arn:topic", None}]

CompleteConfig ==
    [INSTANCE_ID |-> TargetId, ROUTE_TABLE_ID |-> "rtb-1", SNS_TOPIC_ARN |-> "arn:topic"]

(***************************************************************************)
(* State                                                                   *)
(***************************************************************************)

VARIABLES
    event,       \* event[i]: the event invocation i was given
    cfg,         \* cfg[i]: the environment variables invocation i reads
    pc,          \* pc[i]: the external call invocation i makes next, or done
    site,        \* site[i]: the line of the send_alert call being made
    statusCode,  \* statusCode[i]: 'statusCode' of the returned result
    calls,       \* calls[i]: the external calls made so far, with responses
    live         \* lifecycle state of the NAT instance in EC2

vars == <<event, cfg, pc, site, statusCode, calls, live>>

(***************************************************************************)
(* Where an invocation goes next: the next external call, a send_alert     *)
(* call at a given line, a returned result, or an exception on its way up. *)
(***************************************************************************)

Return(code) == [pc |-> "done", site |-> "-", statusCode |-> code]
Goto(call) == [pc |-> call, site |-> "-", statusCode |-> 0]
Alert(line) == [pc |-> "send_alert", site |-> line, statusCode |-> 0]
Raise == [pc |-> "raised", site |-> "-", statusCode |-> 0]

\* The send_alert calls of the source, by line.
AlertSites == {"L65", "L123", "L138", "L164", "L200", "L245", "L260"}

\* Subject argument of each send_alert call (L200 appends the alarm name,
\* which the call record carries in its own field).
Subject(line) ==
    CASE line = "L65" -> "NAT Recovery Error"
      [] line = "L123" -> "NAT Instance Automatically Restarted"
      [] line = "L138" -> "NAT Recovery Failed"
      [] line = "L164" -> "CRITICAL: NAT Instance Terminated"
      [] line = "L200" -> "NAT Instance Alert: "
      [] line = "L245" -> "NAT Instance Automatically Rebooted"
      [] line = "L260" -> "NAT Recovery Failed"

\* What the message argument of each send_alert call says.
Message(line) ==
    CASE line = "L65" -> "Error in recovery function"
      [] line = "L123" -> "Action: Started stopped instance"
      [] line = "L138" -> "Failed to restart NAT instance"
      [] line = "L164" -> "Action: Instance terminated"
      [] line = "L200" -> "Please investigate the issue"
      [] line = "L245" -> "Action: Rebooted due to health check failure"
      [] line = "L260" -> "Failed to handle health check failure"

(***************************************************************************)
(* handler and the routing below it, up to the first external call.        *)
(***************************************************************************)

\* not x, for the values an environment variable can have
Falsy(v) == v \in {None, ""}

\* Line 44 without the route table id, which nothing else reads.
ConfigMissing_NoRouteTable(c) ==
    Falsy(c.INSTANCE_ID) \/ Falsy(c.SNS_TOPIC_ARN)

\* not all([instance_id, route_table_id, sns_topic_arn])
ConfigMissing(c) ==
    Falsy(c.INSTANCE_ID) \/ Falsy(c.ROUTE_TABLE_ID) \/ Falsy(c.SNS_TOPIC_ARN)

\* dict.get(key, default)
Get(v, default) == IF v = None THEN default ELSE v

\* detail.get('alarmName', 'Unknown')
GetName(v) == IF v = NoName THEN Unknown ELSE v

\* Line 185 without the .lower() calls.
IsHealthAlarm_CaseSensitive(alarm_name) ==
    Contains(health, alarm_name) \/ Contains(status, alarm_name)

\* 'health' in alarm_name.lower() or 'status' in alarm_name.lower()
IsHealthAlarm(alarm_name) ==
    Contains(health, Lower(alarm_name)) \/ Contains(status, Lower(alarm_name))

\* Lines 187-200 restarting the instance on an alarm that is no health alarm.
handle_cloudwatch_alarm_Restart(e, instance_id) ==
    IF e.shape = "baddetail" THEN Raise
    ELSE IF Get(e.stateValue, "Unknown") = "ALARM"
         THEN IF IsHealthAlarm(GetName(e.alarmName))
              THEN Goto("describe_instance_status")
              ELSE Goto("describe_instances")
         ELSE Return(200)

\* Line 183 with every state but OK taken for an alarm.
handle_cloudwatch_alarm_NotOk(e, instance_id) ==
    IF e.shape = "baddetail" THEN Raise
    ELSE IF Get(e.stateValue, "Unknown") /= "OK"
         THEN IF IsHealthAlarm(GetName(e.alarmName))
              THEN Goto("describe_instance_status")
              ELSE Alert("L200")
         ELSE Return(200)

\* Lines 71-92 starting the instance on the event's word, without the probe
\* of lines 102-106.
handle_instance_state_change_NoProbe(e, instance_id) ==
    IF e.shape = "baddetail" THEN Raise
    ELSE IF e.instanceId /= instance_id THEN Return(200)
    ELSE IF e.state \in {"stopped", "stopping"} THEN Goto("start_instances")
    ELSE IF e.state \in {"terminated", "terminating"} THEN Alert("L164")
    ELSE Return(200)

\* Lines 71-92 without the instance filter of lines 80-82.
handle_instance_state_change_Unfiltered(e, instance_id) ==
    IF e.shape = "baddetail" THEN Raise
    ELSE IF e.state \in {"stopped", "stopping"} THEN Goto("describe_instances")
    ELSE IF e.state \in {"terminated", "terminating"} THEN Alert("L164")
    ELSE Return(200)

\* Lines 71-92 with the terminated branch restarting the instance.
handle_instance_state_change_Restart(e, instance_id) ==
    IF e.shape = "baddetail" THEN Raise
    ELSE IF e.instanceId /= instance_id THEN Return(200)
    ELSE IF e.state \in {"stopped", "stopping", "terminated", "terminating"}
         THEN Goto("describe_instances")
    ELSE Return(200)

handle_instance_state_change(e, instance_id) ==
    IF e.shape = "baddetail" THEN Raise           \* detail.get on a non-mapping
    ELSE IF e.instanceId /= instance_id THEN Return(200)
    ELSE IF e.state \in {"stopped", "stopping"} THEN Goto("describe_instances")
    ELSE IF e.state \in {"terminated", "terminating"} THEN Alert("L164")
    ELSE Return(200)

handle_cloudwatch_alarm(e, instance_id) ==
    IF e.shape = "baddetail" THEN Raise           \* detail.get on a non-mapping
    ELSE IF Get(e.stateValue, "Unknown") = "ALARM"
         THEN IF IsHealthAlarm(GetName(e.alarmName))
              THEN Goto("describe_instance_status")
              ELSE Alert("L200")
         ELSE Return(200)

\* except Exception at line 63: the generic alert, then the 500 result.
Caught(r) == IF r.pc = "raised" THEN Alert("L65") ELSE r

\* Line 52 without the detail-type test: every aws.ec2 event is taken for a
\* state change.
handler_SourceOnly(e, c) ==
    IF e.shape = "nolog" THEN Raise
    ELSE Caught(
        IF ConfigMissing(c) THEN Raise
        ELSE IF e.shape = "nomap" THEN Raise
        ELSE IF e.source = "aws.ec2"
             THEN handle_instance_state_change(e, c.INSTANCE_ID)
        ELSE IF e.source = "aws.cloudwatch"
             THEN handle_cloudwatch_alarm(e, c.INSTANCE_ID)
        ELSE Return(200))

\* Lines 32-69.  When line 37 raises, sns_topic_arn (assigned at line 42) is
\* still unbound where line 65 reads it: the except clause itself raises
\* UnboundLocalError, which leaves handler.
handler(e, c) ==
    IF e.shape = "nolog" THEN Raise
    ELSE Caught(
        IF ConfigMissing(c) THEN Raise            \* ValueError, line 45
        ELSE IF e.shape = "nomap" THEN Raise      \* event.get on a non-mapping
        ELSE IF e.source = "aws.ec2" /\ e.detailType = StateChangeType
             THEN handle_instance_state_change(e, c.INSTANCE_ID)
        ELSE IF e.source = "aws.cloudwatch"
             THEN handle_cloudwatch_alarm(e, c.INSTANCE_ID)
        ELSE Return(200))

(***************************************************************************)
(* handle_stopped_instance and handle_health_check_failure, between calls. *)
(***************************************************************************)

\* except Exception at line 136 / line 258: the handler's own alert.
StoppedFailed == Alert("L138")
HealthFailed == Alert("L260")

\* Line 132 answering the state conflict with HTTP's 409 Conflict.
AfterDescribeInstances_Conflict409(current_state) ==
    IF current_state = "stopped" THEN Goto("start_instances") ELSE Return(409)

\* The state check of line 106 taken for "the instance is not running".
AfterDescribeInstances_NotRunning(current_state) ==
    IF current_state /= "running" THEN Goto("start_instances") ELSE Return(400)

\* Lines 104-134: after describe_instances answered with current_state.
AfterDescribeInstances(current_state) ==
    IF current_state = "stopped" THEN Goto("start_instances") ELSE Return(400)

\* The start acknowledged and the result returned without the notice.
AfterStart_Silent == Return(200)

\* Lines 109-123: after start_instances was acknowledged.
AfterStart == Alert("L123")

\* Line 227 with "and" for "or".
Unhealthy_Both(instance_status, system_status) ==
    instance_status /= "ok" /\ system_status /= "ok"

\* Line 227 looking at the instance status alone.
Unhealthy_InstanceOnly(instance_status, system_status) ==
    instance_status /= "ok"

\* Line 227 rebooting whatever the checks say.
Unhealthy_Always(instance_status, system_status) == TRUE

\* Line 227
Unhealthy(instance_status, system_status) ==
    instance_status /= "ok" \/ system_status /= "ok"

\* Lines 216-218 missing: an empty answer taken for failing status checks.
AfterDescribeStatus_RebootUnknown(resp, instance_status, system_status) ==
    IF resp = "empty" \/ Unhealthy(instance_status, system_status)
    THEN Goto("reboot_instances")
    ELSE Return(200)

\* Lines 216-256: after describe_instance_status answered.
AfterDescribeStatus(resp, instance_status, system_status) ==
    IF resp = "empty" THEN Return(404)
    ELSE IF Unhealthy(instance_status, system_status)
         THEN Goto("reboot_instances")
         ELSE Return(200)

\* Lines 231-245: after reboot_instances was acknowledged.
AfterReboot == Alert("L245")

\* Lines 140 and 262 returning the failure as a result instead of raising.
AfterAlert_NoReraise(line, published) ==
    CASE line = "L65" -> Return(500)
      [] line = "L123" -> Return(200)
      [] line = "L138" -> Return(500)
      [] line = "L164" -> Return(200)
      [] line = "L200" -> Return(200)
      [] line = "L245" -> Return(200)
      [] line = "L260" -> Return(500)

\* A raise after the alert of line 164 as after those of lines 138 and 260.
AfterAlert_TerminatedRaises(line, published) ==
    CASE line = "L65" -> Return(500)
      [] line = "L123" -> Return(200)
      [] line = "L138" -> Caught(Raise)
      [] line = "L164" -> Caught(Raise)
      [] line = "L200" -> Return(200)
      [] line = "L245" -> Return(200)
      [] line = "L260" -> Caught(Raise)

\* send_alert without the except of lines 275-276: a failed publish raises
\* into the caller and from there to the except clause around the call.
AfterAlert_Raises(line, published) ==
    IF published
    THEN CASE line = "L65" -> Return(500)
           [] line \in {"L123", "L164", "L200", "L245"} -> Return(200)
           [] line \in {"L138", "L260"} -> Caught(Raise)
    ELSE CASE line = "L65" -> Raise
           [] line = "L123" -> StoppedFailed
           [] line = "L245" -> HealthFailed
           [] line \in {"L138", "L164", "L200", "L260"} -> Caught(Raise)

\* send_alert (lines 264-276) logs a failed publish and returns; the caller
\* goes on from the line of the call: a result, or the raise of lines 140/262
\* that handler catches at line 63.
AfterAlert(line, published) ==
    CASE line = "L65" -> Return(500)
      [] line = "L123" -> Return(200)
      [] line = "L138" -> Caught(Raise)
      [] line = "L164" -> Return(200)
      [] line = "L200" -> Return(200)
      [] line = "L245" -> Return(200)
      [] line = "L260" -> Caught(Raise)

(***************************************************************************)
(* External calls                                                          *)
(***************************************************************************)

\* One external call as the outside world saw it, with what it answered:
\* resp is the lifecycle state, "ack", "error", "empty", "statuses",
\* "published" or "failed"; line, channel and name are the arguments of a
\* publish; inst and sys the two health checks of a "statuses" answer.
Call(op, resp, line, channel, name, inst, sys) ==
    [op |-> op, resp |-> resp, line |-> line, channel |-> channel,
     name |-> name, inst |-> inst, sys |-> sys]

Ec2Call(op, resp) == Call(op, resp, "-", "-", NoName, "-", "-")

\* What describe_instance_status answers besides an error: without
\* IncludeAllInstances it lists running instances only.
StatusAnswers(l) ==
    IF l = "running"
    THEN { <<"statuses", a, b>> : a \in HealthValues, b \in HealthValues }
    ELSE { <<"empty", "-", "-">> }

\* What start_instances does to the instance when it is acknowledged.
Started(l) == IF l = "stopped" THEN "pending" ELSE l

\* Transitions of the instance made by EC2 itself or by an operator.
LifecycleNext(l) ==
    CASE l = "pending" -> {"running"}
      [] l = "running" -> {"stopping", "shutting-down"}
      [] l = "stopping" -> {"stopped"}
      [] l = "stopped" -> {"pending", "shutting-down"}
      [] l = "shutting-down" -> {"terminated"}
      [] l = "terminated" -> {}

\* The invocation moves on to r.
Move(i, r) ==
    /\ pc' = [pc EXCEPT ![i] = r.pc]
    /\ site' = [site EXCEPT ![i] = r.site]
    /\ statusCode' = [statusCode EXCEPT ![i] = r.statusCode]

Record(i, c) == calls' = [calls EXCEPT ![i] = Append(@, c)]

(***************************************************************************)
(* Actions                                                                 *)
(***************************************************************************)

\* Lines 32-61 with 71-92 and 171-186: everything before the first call.
Handler(i) ==
    /\ pc[i] = "handler"
    /\ Move(i, handler(event[i], cfg[i]))
    /\ UNCHANGED <<event, cfg, calls, live>>

\* Lines 102-106, 129-140
DescribeInstances(i) ==
    /\ pc[i] = "describe_instances"
    /\ \E failed \in BOOLEAN :
         /\ Record(i, Ec2Call("describe_instances", IF failed THEN "error" ELSE live))
         /\ Move(i, IF failed THEN StoppedFailed ELSE AfterDescribeInstances(live))
    /\ UNCHANGED <<event, cfg, live>>

\* Lines 108-123 behind a flag at module scope, which a warm Lambda container
\* keeps from one invocation to the next: the start is skipped once an
\* earlier invocation's start was acknowledged.
StartInstances_Once(i) ==
    /\ pc[i] = "start_instances"
    /\ IF \E j \in Inv \ {i} : \E k \in DOMAIN calls[j] :
             calls[j][k].op = "start_instances" /\ calls[j][k].resp = "ack"
       THEN /\ Move(i, Return(200))
            /\ UNCHANGED <<calls, live>>
       ELSE \E ok \in BOOLEAN :
              /\ Record(i, Ec2Call("start_instances", IF ok THEN "ack" ELSE "error"))
              /\ live' = IF ok THEN Started(live) ELSE live
              /\ Move(i, IF ok THEN AfterStart ELSE StoppedFailed)
    /\ UNCHANGED <<event, cfg>>

\* Lines 108-123, 136-140
StartInstances(i) ==
    /\ pc[i] = "start_instances"
    /\ \E ok \in BOOLEAN :
         /\ Record(i, Ec2Call("start_instances", IF ok THEN "ack" ELSE "error"))
         /\ live' = IF ok THEN Started(live) ELSE live
         /\ Move(i, IF ok THEN AfterStart ELSE StoppedFailed)
    /\ UNCHANGED <<event, cfg>>

\* Lines 215-227, 251-262
DescribeInstanceStatus(i) ==
    /\ pc[i] = "describe_instance_status"
    /\ \/ /\ Record(i, Ec2Call("describe_instance_status", "error"))
          /\ Move(i, HealthFailed)
       \/ \E a \in StatusAnswers(live) :
            /\ Record(i, Call("describe_instance_status", a[1], "-", "-", NoName,
                              a[2], a[3]))
            /\ Move(i, AfterDescribeStatus(a[1], a[2], a[3]))
    /\ UNCHANGED <<event, cfg, live>>

\* Lines 230-250, 258-262
RebootInstances(i) ==
    /\ pc[i] = "reboot_instances"
    /\ \E ok \in BOOLEAN :
         /\ Record(i, Ec2Call("reboot_instances", IF ok THEN "ack" ELSE "error"))
         /\ Move(i, IF ok THEN AfterReboot ELSE HealthFailed)
    /\ UNCHANGED <<event, cfg, live>>

\* Lines 264-276, and the caller's lines after the call.  A publish to no
\* topic (TopicArn=None) cannot succeed.
SendAlert(i) ==
    /\ pc[i] = "send_alert"
    /\ \E published \in (IF cfg[i].SNS_TOPIC_ARN = None THEN {FALSE} ELSE BOOLEAN) :
         /\ Record(i, Call("publish", IF published THEN "published" ELSE "failed",
                           site[i], cfg[i].SNS_TOPIC_ARN,
                           IF site[i] \in {"L200", "L245"}
                           THEN GetName(event[i].alarmName) ELSE NoName,
                           "-", "-"))
         /\ Move(i, AfterAlert(site[i], published))
    /\ UNCHANGED <<event, cfg, live>>

\* The instance changes state on its own or by an operator's hand.
LifecycleStep ==
    /\ \E l \in LifecycleNext(live) : live' = l
    /\ UNCHANGED <<event, cfg, pc, site, statusCode, calls>>

Step(i) ==
    \/ Handler(i)
    \/ DescribeInstances(i)
    \/ StartInstances(i)
    \/ DescribeInstanceStatus(i)
    \/ RebootInstances(i)
    \/ SendAlert(i)

Next == (\E i \in Inv : Step(i)) \/ LifecycleStep

\* The invocations in made are about to run, each on event e under the
\* environment c; the others are never made.
Invocations(made, e, c) ==
    /\ event = [i \in Inv |-> IF i \in made THEN e ELSE NoMapEvent]
    /\ cfg = [i \in Inv |-> IF i \in made THEN c ELSE CompleteConfig]
    /\ pc = [i \in Inv |-> IF i \in made THEN "handler" ELSE "off"]
    /\ site = [i \in Inv |-> "-"]
    /\ statusCode = [i \in Inv |-> 0]
    /\ calls = [i \in Inv |-> <<>>]
    /\ live \in LifecycleStates

\* One invocation of the handler, on any event under any environment.
Init == \E e \in Events, c \in Configs : Invocations({1}, e, c)

Spec == Init /\ [][Next]_vars

\* Two invocations of the handler on the same event under the same
\* environment, each meeting its own notifier outcomes.
InitPair == \E e \in Events, c \in Configs : Invocations({1, 2}, e, c)

SpecPair == InitPair /\ [][Next]_vars

\* Invocation i is delivered once the invocations before it are over.
Turn(i) == \A j \in Inv : j < i => pc[j] \in {"off", "done", "raised"}

NextSeq ==
    \/ \E i \in Inv : Turn(i) /\ Handler(i)
    \/ \E i \in Inv : Turn(i) /\ DescribeInstances(i)
    \/ \E i \in Inv : Turn(i) /\ StartInstances(i)
    \/ \E i \in Inv : Turn(i) /\ DescribeInstanceStatus(i)
    \/ \E i \in Inv : Turn(i) /\ RebootInstances(i)
    \/ \E i \in Inv : Turn(i) /\ SendAlert(i)
    \/ LifecycleStep

\* The same event delivered twice, the second time after the first
\* invocation has ended.
SpecSeq == InitPair /\ [][NextSeq]_vars

\* One invocation of the handler by a caller that may pass any object.
InitRaw == \E e \in RawEvents, c \in Configs : Invocations({1}, e, c)

SpecRaw == InitRaw /\ [][Next]_vars

(***************************************************************************)
(* Vocabulary of the properties                                            *)
(***************************************************************************)

\* Number of calls of invocation i to op.
NumCalls(i, op) == Cardinality({k \in DOMAIN calls[i] : calls[i][k].op = op})

\* Number of send_alert calls of invocation i made at the given line.
NumAlerts(i, line) ==
    Cardinality({k \in DOMAIN calls[i] :
                    calls[i][k].op = "publish" /\ calls[i][k].line = line})

\* Invocation i made the call op and was answered resp.
Answered(i, op, resp) ==
    \E k \in DOMAIN calls[i] : calls[i][k].op = op /\ calls[i][k].resp = resp

\* handler has returned a result.
Returned(i) == pc[i] = "done"

\* The environment of invocation i has all three values, none of them empty.
Configured(i) ==
    /\ cfg[i].INSTANCE_ID \notin {None, ""}
    /\ cfg[i].ROUTE_TABLE_ID \notin {None, ""}
    /\ cfg[i].SNS_TOPIC_ARN \notin {None, ""}

\* The event of invocation i is an instance state change of the target
\* instance reporting one of the given states.
TargetStateEvent(i, states) ==
    /\ event[i].shape = "ok"
    /\ event[i].source = "aws.ec2"
    /\ event[i].detailType = StateChangeType
    /\ event[i].instanceId = TargetId
    /\ cfg[i].INSTANCE_ID = TargetId
    /\ event[i].state \in states

\* The event of invocation i is an alarm in state ALARM whose name contains
\* "health" or "status" in any letter case.
HealthAlarmEvent(i) ==
    /\ event[i].shape = "ok"
    /\ event[i].source = "aws.cloudwatch"
    /\ event[i].stateValue = "ALARM"
    /\ \E w \in {health, status} : Contains(w, Lower(event[i].alarmName))

(***************************************************************************)
(* C1: a stopped-state event for the target whose live probe answers       *)
(* "stopped" leads to exactly one start call and no reboot call; once the  *)
(* start call is acknowledged, to exactly one "restarted" notification     *)
(* and no other notification, and to a result with status 200.             *)
(***************************************************************************)
C1_StoppedConfirmedStarts ==
    \A i \in Inv :
        (/\ TargetStateEvent(i, {"stopped"})
         /\ Answered(i, "describe_instances", "stopped"))
        => /\ NumCalls(i, "describe_instances") = 1
           /\ NumCalls(i, "reboot_instances") = 0
           /\ NumCalls(i, "start_instances") = IF pc[i] = "start_instances" THEN 0 ELSE 1
           /\ Answered(i, "start_instances", "ack")
                => /\ NumAlerts(i, "L123") = IF pc[i] = "send_alert" THEN 0 ELSE 1
                   /\ NumCalls(i, "publish") = NumAlerts(i, "L123")
                   /\ pc[i] \in {"send_alert", "done"}
                   /\ Returned(i) => statusCode[i] = 200

C1_Witness ==
    /\ TargetStateEvent(1, {"stopped"})
    /\ Returned(1)
    /\ statusCode[1] = 200
    /\ Answered(1, "describe_instances", "stopped")
    /\ Answered(1, "start_instances", "ack")
    /\ NumAlerts(1, "L123") = 1

(***************************************************************************)
(* C2: a stopped- or stopping-state event for the target whose live probe  *)
(* answers any state other than "stopped" leads to no start call, no       *)
(* reboot call and no notification, and returns status 400.                *)
(***************************************************************************)
C2_StateConflict ==
    \A i \in Inv :
        (/\ TargetStateEvent(i, {"stopped", "stopping"})
         /\ \E l \in LifecycleStates \ {"stopped"} :
                Answered(i, "describe_instances", l))
        => /\ Returned(i)
           /\ statusCode[i] = 400
           /\ Len(calls[i]) = 1

C2_Witness ==
    /\ TargetStateEvent(1, {"stopping"})
    /\ Answered(1, "describe_instances", "running")
    /\ Returned(1)
    /\ statusCode[1] = 400

(***************************************************************************)
(* C3 as stated: for every event whose instance id does not match the      *)
(* configured target instance id, the result is status 200 and the         *)
(* invocation makes no probe, start or reboot call and sends no            *)
(* notification.  (Taken under a complete environment, where the           *)
(* configuration error of C7 is out of the way.)                           *)
(***************************************************************************)
C3_AsStated ==
    \A i \in Inv :
        (/\ Configured(i)
         /\ event[i].shape = "ok"
         /\ event[i].instanceId \notin {None, cfg[i].INSTANCE_ID})
        => /\ calls[i] = <<>>
           /\ Returned(i) => statusCode[i] = 200

(***************************************************************************)
(* C3 amended: under a complete environment, every event that is not an    *)
(* alarm event (source aws.cloudwatch) and whose detail carries no         *)
(* instance id equal to the configured target instance id gets status 200  *)
(* and the invocation makes no probe, start or reboot call and sends no    *)
(* notification.  Alarm events are not filtered by instance id.            *)
(***************************************************************************)
C3_NotOurInstance ==
    \A i \in Inv :
        (/\ Configured(i)
         /\ event[i].shape = "ok"
         /\ event[i].source /= "aws.cloudwatch"
         /\ event[i].instanceId /= cfg[i].INSTANCE_ID)
        => /\ calls[i] = <<>>
           /\ pc[i] \in {"handler", "done"}
           /\ Returned(i) => statusCode[i] = 200

C3_Witness ==
    /\ Configured(1)
    /\ event[1].shape = "ok"
    /\ event[1].source = "aws.ec2"
    /\ event[1].detailType = StateChangeType
    /\ event[1].instanceId = OtherId
    /\ event[1].state = "stopped"
    /\ live = "stopped"
    /\ Returned(1)
    /\ statusCode[1] = 200
    /\ calls[1] = <<>>

(***************************************************************************)
(* C4: under a complete environment, a terminated- or terminating-state    *)
(* event for the target leads to no probe, start or reboot call, to        *)
(* exactly one critical-escalation notification and to status 200.         *)
(***************************************************************************)
C4_TerminatedEscalates ==
    \A i \in Inv :
        (Configured(i) /\ TargetStateEvent(i, {"terminated", "terminating"}))
        => /\ pc[i] \in {"handler", "send_alert", "done"}
           /\ pc[i] = "send_alert" => site[i] = "L164" /\ calls[i] = <<>>
           /\ Returned(i)
                => /\ statusCode[i] = 200
                   /\ Len(calls[i]) = 1
                   /\ NumAlerts(i, "L164") = 1
                   /\ calls[i][1].channel = cfg[i].SNS_TOPIC_ARN
           /\ pc[i] = "handler" => calls[i] = <<>>

C4_Witness ==
    /\ Configured(1)
    /\ TargetStateEvent(1, {"terminating"})
    /\ Returned(1)
    /\ statusCode[1] = 200
    /\ NumAlerts(1, "L164") = 1

(***************************************************************************)
(* C5: an ALARM-state alarm whose name contains "health" or "status" in    *)
(* any letter case and whose probed instance status or system status is    *)
(* not ok leads to exactly one reboot call and no start call; once the     *)
(* reboot is acknowledged, to exactly one "rebooted" notification and to   *)
(* status 200.                                                             *)
(***************************************************************************)
C5_UnhealthyReboots ==
    \A i \in Inv :
        (/\ HealthAlarmEvent(i)
         /\ \E k \in DOMAIN calls[i] :
               /\ calls[i][k].op = "describe_instance_status"
               /\ calls[i][k].resp = "statuses"
               /\ calls[i][k].inst /= "ok" \/ calls[i][k].sys /= "ok")
        => /\ NumCalls(i, "describe_instance_status") = 1
           /\ NumCalls(i, "start_instances") = 0
           /\ NumCalls(i, "describe_instances") = 0
           /\ NumCalls(i, "reboot_instances") = IF pc[i] = "reboot_instances" THEN 0 ELSE 1
           /\ Answered(i, "reboot_instances", "ack")
                => /\ NumAlerts(i, "L245") = IF pc[i] = "send_alert" THEN 0 ELSE 1
                   /\ NumCalls(i, "publish") = NumAlerts(i, "L245")
                   /\ pc[i] \in {"send_alert", "done"}
                   /\ Returned(i) => statusCode[i] = 200

\* The system status alone is unhealthy, the name is in mixed case.
C5_Witness ==
    /\ HealthAlarmEvent(1)
    /\ ~Contains(status, event[1].alarmName)
    /\ ~Contains(health, event[1].alarmName)
    /\ \E k \in DOMAIN calls[1] :
          /\ calls[1][k].op = "describe_instance_status"
          /\ calls[1][k].inst = "ok"
          /\ calls[1][k].sys = "impaired"
    /\ Answered(1, "reboot_instances", "ack")
    /\ NumAlerts(1, "L245") = 1
    /\ Returned(1)
    /\ statusCode[1] = 200

(***************************************************************************)
(* C6: an ALARM-state alarm whose name contains "health" or "status" and   *)
(* whose probed instance status and system status are both ok leads to no  *)
(* reboot call, no start call and no notification, and returns status 200. *)
(***************************************************************************)
C6_HealthyNoAction ==
    \A i \in Inv :
        (/\ HealthAlarmEvent(i)
         /\ \E k \in DOMAIN calls[i] :
               /\ calls[i][k].op = "describe_instance_status"
               /\ calls[i][k].resp = "statuses"
               /\ calls[i][k].inst = "ok"
               /\ calls[i][k].sys = "ok")
        => /\ Returned(i)
           /\ statusCode[i] = 200
           /\ Len(calls[i]) = 1

C6_Witness ==
    /\ HealthAlarmEvent(1)
    /\ Len(calls[1]) = 1
    /\ calls[1][1].op = "describe_instance_status"
    /\ calls[1][1].inst = "ok"
    /\ calls[1][1].sys = "ok"
    /\ Returned(1)
    /\ statusCode[1] = 200

(***************************************************************************)
(* C7: with any one of INSTANCE_ID, ROUTE_TABLE_ID, SNS_TOPIC_ARN missing, *)
(* whatever the event, the invocation makes no probe, start or reboot      *)
(* call, attempts exactly one escalation notification (the generic         *)
(* "Error in recovery function" alert) and returns status 500.             *)
(***************************************************************************)
C7_ConfigError ==
    \A i \in Inv :
        (pc[i] /= "off" /\ ~Configured(i))
        => /\ pc[i] \in {"handler", "send_alert", "done"}
           /\ pc[i] = "handler" => calls[i] = <<>>
           /\ pc[i] = "send_alert" => site[i] = "L65" /\ calls[i] = <<>>
           /\ Returned(i)
                => /\ statusCode[i] = 500
                   /\ Len(calls[i]) = 1
                   /\ NumAlerts(i, "L65") = 1
                   /\ calls[i][1].channel = cfg[i].SNS_TOPIC_ARN

\* Only the route table id is missing, and the event is one that would
\* otherwise start the instance.
C7_Witness ==
    /\ cfg[1].INSTANCE_ID = TargetId
    /\ cfg[1].ROUTE_TABLE_ID = None
    /\ cfg[1].SNS_TOPIC_ARN /= None
    /\ TargetStateEvent(1, {"stopped"})
    /\ live = "stopped"
    /\ Returned(1)
    /\ statusCode[1] = 500
    /\ NumAlerts(1, "L65") = 1

\* Call k of invocation i is the send_alert call made at the given line.
IsAlert(i, k, line) ==
    /\ k \in DOMAIN calls[i]
    /\ calls[i][k].op = "publish"
    /\ calls[i][k].line = line

\* What follows call k of invocation i, a failure inside the handler whose own
\* alert is made at line own: that alert, then the generic alert of the entry
\* point, then the result 500.
EscalatedTwice(i, k, own) ==
    /\ Len(calls[i]) <= k + 2
    /\ Len(calls[i]) = k => pc[i] = "send_alert" /\ site[i] = own
    /\ Len(calls[i]) > k => IsAlert(i, k + 1, own)
    /\ Len(calls[i]) = k + 1 => pc[i] = "send_alert" /\ site[i] = "L65"
    /\ Len(calls[i]) = k + 2
         => IsAlert(i, k + 2, "L65") /\ Returned(i) /\ statusCode[i] = 500

(***************************************************************************)
(* C9: when the start call (stop path) or the reboot call (health-check    *)
(* path) fails, the handler's own escalation alert is attempted first,     *)
(* then the failure reaches the entry point, which attempts the generic    *)
(* "Error in recovery function" alert and returns status 500; no           *)
(* "restarted" or "rebooted" notification is attempted.                    *)
(***************************************************************************)
C9_ActionErrorEscalates ==
    \A i \in Inv : \A k \in DOMAIN calls[i] :
        /\ (calls[i][k].op = "start_instances" /\ calls[i][k].resp = "error")
             => EscalatedTwice(i, k, "L138")
        /\ (calls[i][k].op = "reboot_instances" /\ calls[i][k].resp = "error")
             => EscalatedTwice(i, k, "L260")

C9_Witness ==
    /\ Answered(1, "reboot_instances", "error")
    /\ Len(calls[1]) = 4
    /\ IsAlert(1, 3, "L260")
    /\ calls[1][3].resp = "failed"
    /\ IsAlert(1, 4, "L65")
    /\ Returned(1)
    /\ statusCode[1] = 500

\* Invocation i attempted an alert of an inner handler at the given line and
\* right after it the generic alert of the entry point.
AlertedThenReraised(i, line) ==
    \E k \in DOMAIN calls[i] : IsAlert(i, k, line) /\ IsAlert(i, k + 1, "L65")

(***************************************************************************)
(* C10 as stated: every invocation in which an inner handler sends an      *)
(* escalation alert and then propagates the failure to the entry point,    *)
(* so that two failure alerts are attempted, handles an ALARM-state        *)
(* health/status alarm on the health-check recovery path.                  *)
(***************************************************************************)
C10_AsStated ==
    \A i \in Inv : \A line \in AlertSites \ {"L65"} :
        AlertedThenReraised(i, line) => HealthAlarmEvent(i) /\ line = "L260"

(***************************************************************************)
(* C10 amended: every invocation in which an inner handler sends an        *)
(* escalation alert and then propagates the failure to the entry point     *)
(* handles either an ALARM-state health/status alarm on the health-check   *)
(* recovery path (a failed status probe or reboot) or a stopped- or        *)
(* stopping-state event for the target on the stop path (a failed          *)
(* lifecycle probe or start).                                              *)
(***************************************************************************)
C10_NotifyAndReraise ==
    \A i \in Inv : \A line \in AlertSites \ {"L65"} :
        AlertedThenReraised(i, line)
        => \/ /\ line = "L260"
              /\ HealthAlarmEvent(i)
              /\ \/ Answered(i, "describe_instance_status", "error")
                 \/ Answered(i, "reboot_instances", "error")
           \/ /\ line = "L138"
              /\ TargetStateEvent(i, {"stopped", "stopping"})
              /\ \/ Answered(i, "describe_instances", "error")
                 \/ Answered(i, "start_instances", "error")

\* Both kinds happen: this one is the stop path with a failed probe.
C10_Witness ==
    /\ AlertedThenReraised(1, "L138")
    /\ TargetStateEvent(1, {"stopping"})
    /\ Answered(1, "describe_instances", "error")
    /\ Returned(1)

\* The answers the compute API gave invocation i, in order.
Ec2Answers(i) ==
    LET IsEc2(c) == c.op /= "publish"
        ec2calls == SelectSeq(calls[i], IsEc2)
    IN  [k \in DOMAIN ec2calls |-> <<ec2calls[k].resp, ec2calls[k].inst, ec2calls[k].sys>>]

\* The probe, start and reboot calls invocation i made, in order.
Ec2Calls(i) ==
    LET IsEc2(c) == c.op /= "publish"
        ec2calls == SelectSeq(calls[i], IsEc2)
    IN  [k \in DOMAIN ec2calls |-> ec2calls[k].op]

\* The send_alert calls invocation i made, in order, by line.
AlertsSent(i) ==
    LET IsPublish(c) == c.op = "publish"
        alerts == SelectSeq(calls[i], IsPublish)
    IN  [k \in DOMAIN alerts |-> alerts[k].line]

\* What the notifier answered invocation i, in order.
NotifierAnswers(i) ==
    LET IsPublish(c) == c.op = "publish"
        alerts == SelectSeq(calls[i], IsPublish)
    IN  [k \in DOMAIN alerts |-> alerts[k].resp]

\* The invocation is over: a result was returned or an exception left handler.
Over(i) == pc[i] \in {"done", "raised"}

(***************************************************************************)
(* C8: a failed notification never changes the outcome.  Two invocations   *)
(* on the same event under the same environment that get the same answers  *)
(* from the compute API end with the same status code after the same       *)
(* probe/start/reboot calls and the same alerts, whatever the notifier     *)
(* answered each of them; and no invocation ends with an exception         *)
(* leaving handler.                                                        *)
(***************************************************************************)
C8_NotifierIsolated ==
    /\ \A i \in Inv : pc[i] /= "raised"
    /\ \A i, j \in Inv :
         (/\ Over(i) /\ Over(j)
          /\ event[i] = event[j]
          /\ cfg[i] = cfg[j]
          /\ Ec2Answers(i) = Ec2Answers(j))
         => /\ statusCode[i] = statusCode[j]
            /\ Ec2Calls(i) = Ec2Calls(j)
            /\ AlertsSent(i) = AlertsSent(j)

\* The start was acknowledged to both, the notice reached one and not the other.
C8_Witness ==
    /\ Over(1) /\ Over(2)
    /\ Ec2Answers(1) = Ec2Answers(2)
    /\ Ec2Calls(1) = <<"describe_instances", "start_instances">>
    /\ Answered(1, "start_instances", "ack")
    /\ NotifierAnswers(1) = <<"published">>
    /\ NotifierAnswers(2) = <<"failed">>
    /\ statusCode[1] = 200
    /\ statusCode[2] = 200

\* Something fails in invocation i outside the try blocks of the inner
\* handlers: logging the event, validating the configuration, or reading a
\* malformed event while routing it.
FailsOutsideInnerHandlers(i) ==
    \/ event[i].shape \in {"nolog", "nomap"}
    \/ ~Configured(i)
    \/ /\ event[i].shape = "baddetail"
       /\ \/ event[i].source = "aws.ec2" /\ event[i].detailType = StateChangeType
          \/ event[i].source = "aws.cloudwatch"

(***************************************************************************)
(* C11: a failure at any step that no inner handler absorbs, the logging   *)
(* of the received event before the configuration is read included, is     *)
(* caught by the entry point: no exception leaves handler, the generic     *)
(* "Error in recovery function" alert is attempted once, and the           *)
(* invocation returns status 500.                                          *)
(***************************************************************************)
C11_EntryPointCatchesAll ==
    \A i \in Inv :
        (pc[i] /= "off" /\ FailsOutsideInnerHandlers(i))
        => /\ pc[i] \in {"handler", "send_alert", "done"}
           /\ pc[i] = "send_alert" => site[i] = "L65" /\ calls[i] = <<>>
           /\ Returned(i)
                => /\ statusCode[i] = 500
                   /\ Len(calls[i]) = 1
                   /\ NumAlerts(i, "L65") = 1

(***************************************************************************)
(* C12: an ALARM-state health/status alarm whose status query comes back   *)
(* empty leads to no reboot call, no start call and no notification, and   *)
(* returns status 404.                                                     *)
(***************************************************************************)
C12_StatusNotFound ==
    \A i \in Inv :
        (HealthAlarmEvent(i) /\ Answered(i, "describe_instance_status", "empty"))
        => /\ Returned(i)
           /\ statusCode[i] = 404
           /\ Len(calls[i]) = 1

C12_Witness ==
    /\ HealthAlarmEvent(1)
    /\ live = "stopped"
    /\ calls[1] = <<Call("describe_instance_status", "empty", "-", "-", NoName, "-", "-")>>
    /\ Returned(1)
    /\ statusCode[1] = 404

\* The event of invocation i is a well-formed alarm event.
AlarmEvent(i) ==
    /\ event[i].shape = "ok"
    /\ event[i].source = "aws.cloudwatch"

(***************************************************************************)
(* C13: under a complete environment, an alarm event whose state value is  *)
(* anything but "ALARM" (OK, INSUFFICIENT_DATA, or no value at all),       *)
(* whatever its name, leads to no probe, start or reboot call and no       *)
(* notification, and returns status 200.                                   *)
(***************************************************************************)
C13_OnlyAlarmActs ==
    \A i \in Inv :
        (Configured(i) /\ AlarmEvent(i) /\ event[i].stateValue /= "ALARM")
        => /\ calls[i] = <<>>
           /\ pc[i] \in {"handler", "done"}
           /\ Returned(i) => statusCode[i] = 200

\* A health alarm that is short of data.
C13_Witness ==
    /\ Configured(1)
    /\ AlarmEvent(1)
    /\ event[1].stateValue = "INSUFFICIENT_DATA"
    /\ event[1].alarmName = <<"n", "a", "t", "-", "h", "e", "a", "l", "t", "h">>
    /\ calls[1] = <<>>
    /\ Returned(1)
    /\ statusCode[1] = 200

\* The alarm names that contain "health" or "status" in some letter case, and
\* those that do not (the last is the name of an event that carries none).
NamesOfHealthAlarms ==
    { <<"n", "a", "t", "-", "h", "e", "a", "l", "t", "h">>,
      <<"N", "A", "T", "-", "S", "t", "a", "t", "u", "s", "C", "h", "k">>,
      <<"H", "E", "A", "L", "T", "H">> }

NamesOfOtherAlarms ==
    { <<"c", "p", "u", "-", "h", "i", "g", "h">>,
      <<"h", "e", "a", "l", "t", "-", "s", "t", "a", "t", "u">>,
      <<"U", "n", "k", "n", "o", "w", "n">> }

\* alarm_name of invocation i
NameOf(i) == IF event[i].alarmName = <<"None">> THEN <<"U", "n", "k", "n", "o", "w", "n">>
             ELSE event[i].alarmName

(***************************************************************************)
(* C14: under a complete environment, an ALARM-state alarm whose name      *)
(* contains neither "health" nor "status" (in any letter case) leads to no *)
(* probe, start or reboot call, to exactly one informational notification  *)
(* carrying the alarm name, and to status 200; an ALARM-state alarm whose  *)
(* name contains either word in any letter case goes to the health-check   *)
(* recovery path, whose first call is the status probe.                    *)
(***************************************************************************)
C14_AlarmClassification ==
    \A i \in Inv :
        (Configured(i) /\ AlarmEvent(i) /\ event[i].stateValue = "ALARM")
        => /\ NameOf(i) \in NamesOfHealthAlarms \cup NamesOfOtherAlarms
           /\ NameOf(i) \in NamesOfOtherAlarms
                => /\ pc[i] \in {"handler", "send_alert", "done"}
                   /\ pc[i] = "send_alert" => site[i] = "L200" /\ calls[i] = <<>>
                   /\ pc[i] = "handler" => calls[i] = <<>>
                   /\ Returned(i)
                        => /\ statusCode[i] = 200
                           /\ Len(calls[i]) = 1
                           /\ IsAlert(i, 1, "L200")
                           /\ calls[i][1].name = NameOf(i)
           /\ NameOf(i) \in NamesOfHealthAlarms
                => /\ NumAlerts(i, "L200") = 0
                   /\ pc[i] /= "handler"
                        => \/ pc[i] = "describe_instance_status" /\ calls[i] = <<>>
                           \/ /\ calls[i] /= <<>>
                              /\ calls[i][1].op = "describe_instance_status"

\* A name that comes close to both words and contains neither.
C14_Witness ==
    /\ Configured(1)
    /\ AlarmEvent(1)
    /\ event[1].stateValue = "ALARM"
    /\ event[1].alarmName = <<"h", "e", "a", "l", "t", "-", "s", "t", "a", "t", "u">>
    /\ Len(calls[1]) = 1
    /\ IsAlert(1, 1, "L200")
    /\ Returned(1)
    /\ statusCode[1] = 200

\* An all-capitals name on the health-check recovery path.
C14_WitnessUpper ==
    /\ Configured(1)
    /\ AlarmEvent(1)
    /\ event[1].stateValue = "ALARM"
    /\ event[1].alarmName = <<"H", "E", "A", "L", "T", "H">>
    /\ Answered(1, "reboot_instances", "ack")
    /\ Returned(1)

\* The envelope of invocation i's event is neither an EC2 state change nor a
\* CloudWatch event.
UnrecognizedEvent(i) ==
    /\ event[i].shape = "ok"
    /\ ~(event[i].source = "aws.ec2" /\ event[i].detailType = StateChangeType)
    /\ event[i].source /= "aws.cloudwatch"

(***************************************************************************)
(* C15: under a complete environment, an event whose envelope is neither   *)
(* (aws.ec2, state-change notification) nor aws.cloudwatch, and a state    *)
(* change of the target reporting a state other than stopped, stopping,    *)
(* terminated, terminating, each get status 200 with no probe, start or    *)
(* reboot call and no notification.                                        *)
(***************************************************************************)
C15_UnhandledNoSideEffects ==
    \A i \in Inv :
        (/\ Configured(i)
         /\ \/ UnrecognizedEvent(i)
            \/ TargetStateEvent(i, {"pending", "running", "shutting-down", None}))
        => /\ calls[i] = <<>>
           /\ pc[i] \in {"handler", "done"}
           /\ Returned(i) => statusCode[i] = 200

\* An aws.ec2 event of another detail type that names the stopped target.
C15_Witness ==
    /\ Configured(1)
    /\ UnrecognizedEvent(1)
    /\ event[1].source = "aws.ec2"
    /\ event[1].instanceId = TargetId
    /\ event[1].state = "stopped"
    /\ live = "stopped"
    /\ calls[1] = <<>>
    /\ Returned(1)
    /\ statusCode[1] = 200

\* A state change of the target that needs no action.
C15_WitnessRunning ==
    /\ Configured(1)
    /\ TargetStateEvent(1, {"running"})
    /\ calls[1] = <<>>
    /\ Returned(1)
    /\ statusCode[1] = 200

\* The external calls invocation i made, in order: the operation and, for a
\* notification, the line that sent it.
CallsMade(i) == [k \in DOMAIN calls[i] |-> <<calls[i][k].op, calls[i][k].line>>]

\* Two sequences of answers that agree wherever both have one.
Agree(a, b) == \A k \in DOMAIN a \cap DOMAIN b : a[k] = b[k]

IsCall(i, k, op, resp) ==
    /\ k \in DOMAIN calls[i]
    /\ calls[i][k].op = op
    /\ calls[i][k].resp = resp

(***************************************************************************)
(* C17: within one invocation the external calls come in the order probe,  *)
(* act, notify: a start call comes right after the invocation's own        *)
(* lifecycle probe, a reboot call right after its own health-check probe,  *)
(* and a "restarted" or "rebooted" notification only right after the       *)
(* acknowledged start or reboot call, never before it and never when it    *)
(* failed; once a notification was attempted no compute call follows.      *)
(***************************************************************************)
C17_ProbeActNotify ==
    \A i \in Inv : \A k \in DOMAIN calls[i] :
        /\ calls[i][k].op = "start_instances"
             => IsCall(i, k - 1, "describe_instances", "stopped")
        /\ calls[i][k].op = "reboot_instances"
             => IsCall(i, k - 1, "describe_instance_status", "statuses")
        /\ IsAlert(i, k, "L123") => IsCall(i, k - 1, "start_instances", "ack")
        /\ IsAlert(i, k, "L245") => IsCall(i, k - 1, "reboot_instances", "ack")
        /\ calls[i][k].op = "publish"
             => \A m \in DOMAIN calls[i] : m > k => calls[i][m].op = "publish"
        /\ calls[i][k].resp = "error"
             => NumAlerts(i, "L123") = 0 /\ NumAlerts(i, "L245") = 0

C17_Witness ==
    /\ Returned(1)
    /\ CallsMade(1) = <<<<"describe_instance_status", "-">>, <<"reboot_instances", "-">>,
                        <<"publish", "L245">>>>
    /\ IsCall(1, 2, "reboot_instances", "ack")

\* The last external call of invocation i.
LastCall(i) == calls[i][Len(calls[i])]

(***************************************************************************)
(* C18: every result an invocation returns has a status code among 200,    *)
(* 400, 404 and 500; 400 comes only from the stop path on a state          *)
(* conflict, 404 only from the health-check path on an empty status        *)
(* answer, and 500 only from the error boundary of the entry point, right  *)
(* after its generic alert.                                                *)
(***************************************************************************)
C18_StatusCodes ==
    \A i \in Inv :
        /\ ~Returned(i) => statusCode[i] = 0
        /\ Returned(i)
             => /\ statusCode[i] \in {200, 400, 404, 500}
                /\ statusCode[i] = 400
                     => /\ TargetStateEvent(i, {"stopped", "stopping"})
                        /\ Len(calls[i]) = 1
                        /\ LastCall(i).op = "describe_instances"
                        /\ LastCall(i).resp \in LifecycleStates \ {"stopped"}
                /\ statusCode[i] = 404
                     => /\ HealthAlarmEvent(i)
                        /\ Len(calls[i]) = 1
                        /\ IsCall(i, 1, "describe_instance_status", "empty")
                /\ statusCode[i] = 500
                     => /\ calls[i] /= <<>>
                        /\ IsAlert(i, Len(calls[i]), "L65")
                        /\ NumAlerts(i, "L65") = 1
                /\ IsAlert(i, Len(calls[i]), "L65") => statusCode[i] = 500

\* All four codes are returned; this is 404.
C18_Witness ==
    /\ Returned(1)
    /\ statusCode[1] = 404
    /\ event[1].alarmName = <<"N", "A", "T", "-", "S", "t", "a", "t", "u", "s", "C", "h", "k">>
    /\ live = "pending"

C18_Witness400 == Returned(1) /\ statusCode[1] = 400 /\ live = "terminated"

C18_Witness500 == Returned(1) /\ statusCode[1] = 500 /\ event[1].shape = "baddetail"

\* Invocation i makes its start call in this step.
StartCallBy(i) ==
    /\ Len(calls'[i]) = Len(calls[i]) + 1
    /\ calls'[i][Len(calls'[i])].op = "start_instances"

\* Invocation i commits to the start call in this step.
CommitsToStart(i) == pc[i] /= "start_instances" /\ pc'[i] = "start_instances"

(***************************************************************************)
(* C19 as stated: in every interleaving of an invocation handling a        *)
(* stopped-state event with a manual start of the instance or with a       *)
(* second invocation handling the same event, a start call is issued only  *)
(* while the instance is "stopped" at the moment of the call.              *)
(***************************************************************************)
C19_AsStated ==
    [][\A i \in Inv : StartCallBy(i) => live = "stopped"]_vars

(***************************************************************************)
(* C19 amended: in every such interleaving an invocation commits to the    *)
(* start call only at its own lifecycle probe, taken while the instance is *)
(* "stopped", and issues the start call only after committing; the         *)
(* instance may have left "stopped" between that probe and the call.       *)
(***************************************************************************)
C19_StartOnlyAfterStoppedProbe ==
    [][\A i \in Inv :
         /\ CommitsToStart(i) => pc[i] = "describe_instances" /\ live = "stopped"
         /\ StartCallBy(i) => pc[i] = "start_instances"]_vars

\* Invocation 1 is about to start an instance that invocation 2 has already
\* started since invocation 1 probed it.
C19_Witness ==
    /\ TargetStateEvent(1, {"stopped"})
    /\ pc[1] = "start_instances"
    /\ Answered(1, "describe_instances", "stopped")
    /\ Answered(2, "start_instances", "ack")
    /\ live = "pending"

(***************************************************************************)
(* C20: an invocation issues at most one corrective action, start and      *)
(* reboot calls taken together; a start call only when it handles a state  *)
(* change of the target reporting stopped or stopping, a reboot call only  *)
(* when it handles an ALARM-state alarm whose name contains "health" or    *)
(* "status"; never both.                                                   *)
(***************************************************************************)
C20_OneCorrectiveAction ==
    \A i \in Inv :
        /\ NumCalls(i, "start_instances") + NumCalls(i, "reboot_instances") <= 1
        /\ (NumCalls(i, "start_instances") > 0 \/ pc[i] = "start_instances")
             => TargetStateEvent(i, {"stopped", "stopping"})
        /\ (NumCalls(i, "reboot_instances") > 0 \/ pc[i] = "reboot_instances")
             => /\ AlarmEvent(i)
                /\ event[i].stateValue = "ALARM"
                /\ NameOf(i) \in NamesOfHealthAlarms

\* A stopping-state event whose instance has stopped by the time of the probe.
C20_Witness ==
    /\ TargetStateEvent(1, {"stopping"})
    /\ NumCalls(1, "start_instances") = 1
    /\ NumCalls(1, "reboot_instances") = 0
    /\ Returned(1)

C20_WitnessReboot ==
    /\ NumCalls(1, "reboot_instances") = 1
    /\ NumCalls(1, "start_instances") = 0
    /\ Returned(1)

====
